---------------------------- MODULE Spec2Model ----------------------------
(***************************************************************************)
(* Model of finance-tracker: the Flask handlers of app.py and the CSV      *)
(* importer of import.py over one store of accounts and balance points.    *)
(*                                                                         *)
(* Strings are sequences of one-character strings (<<"1", ",", "5">> is    *)
(* "1,5").  Decimal amounts with two fractional digits are integers in     *)
(* cents.  Dates are <<year, month, day>>; a date string is a string like  *)
(* any other, so "2024-01-30" is the sequence of its ten characters.       *)
(***************************************************************************)
EXTENDS Integers, Sequences, FiniteSets, TLC

VARIABLES
    accounts,   \* rows of table accounts (app.py:19-29)
    points,     \* rows of table balance_points (app.py:52-65)
    imp,        \* the import_csv call: position, counters, snapshot, report
    pin,        \* input string of the parse_decimal harness
    pres        \* results of the two parse_decimal copies on pin

vars == <<accounts, points, imp, pin, pres>>

-----------------------------------------------------------------------------
(* Bounds of the model.                                                    *)

MaxLen == 5          \* longest string given to the parse_decimal harness
MaxAccountId == 2    \* accounts are created while the next id is <= this
MaxPointId == 2      \* balance points are created while the next id is <= this
MaxRows == 2         \* longest CSV file body, in rows

-----------------------------------------------------------------------------
(* Python str helpers.                                                     *)

\* None, where a str is expected: unequal to every string of the model
None == <<"None">>

Space == " "

\* str.strip(): drop leading and trailing whitespace.
RECURSIVE lstrip(_)
lstrip(s) == IF s # <<>> /\ Head(s) = Space THEN lstrip(Tail(s)) ELSE s

RECURSIVE rstrip(_)
rstrip(s) ==
    IF s # <<>> /\ s[Len(s)] = Space THEN rstrip(SubSeq(s, 1, Len(s) - 1)) ELSE s

strip(s) == rstrip(lstrip(s))

\* c in s
contains(s, c) == \E i \in 1..Len(s) : s[i] = c

\* s.rfind(c): index of the last occurrence (0-based), -1 when absent.
rfind(s, c) ==
    IF contains(s, c)
    THEN (CHOOSE i \in 1..Len(s) : s[i] = c /\ \A j \in (i+1)..Len(s) : s[j] # c) - 1
    ELSE -1

\* s.replace(c, r) for a one-character c and a replacement string r.
RECURSIVE replace(_, _, _)
replace(s, c, r) ==
    IF s = <<>> THEN <<>>
    ELSE (IF Head(s) = c THEN r ELSE <<Head(s)>>) \o replace(Tail(s), c, r)

-----------------------------------------------------------------------------
(* decimal.Decimal(s).quantize(Decimal("0.01")) under the default context  *)
(* (ROUND_HALF_EVEN).  Decimal() itself strips surrounding whitespace and  *)
(* accepts [sign] digits [. digits] with at least one digit; exponents,    *)
(* NaN and Infinity need letters, which the model's alphabet leaves out.   *)

Digits == {"0", "1", "2", "3", "4", "5", "6", "7", "8", "9"}

DigitVal(c) ==
    CASE c = "0" -> 0 [] c = "1" -> 1 [] c = "2" -> 2 [] c = "3" -> 3
      [] c = "4" -> 4 [] c = "5" -> 5 [] c = "6" -> 6 [] c = "7" -> 7
      [] c = "8" -> 8 [] c = "9" -> 9

\* value of a digit string, most significant digit first
RECURSIVE DigitsVal(_)
DigitsVal(s) ==
    IF s = <<>> THEN 0 ELSE DigitsVal(SubSeq(s, 1, Len(s) - 1)) * 10 + DigitVal(s[Len(s)])

AllDigits(s) == \A i \in 1..Len(s) : s[i] \in Digits

InvalidOperation == [ok |-> FALSE, cents |-> 0]

\* quantize of the non-negative number ip.frac to cents, ties to even
QuantizeCents(ip, frac) ==
    LET f1 == IF Len(frac) >= 1 THEN DigitVal(frac[1]) ELSE 0
        f2 == IF Len(frac) >= 2 THEN DigitVal(frac[2]) ELSE 0
        rest == IF Len(frac) > 2 THEN SubSeq(frac, 3, Len(frac)) ELSE <<>>
        kept == DigitsVal(ip) * 100 + f1 * 10 + f2
        r1 == IF rest = <<>> THEN 0 ELSE DigitVal(rest[1])
        tailNonZero == \E i \in 2..Len(rest) : rest[i] # "0"
        up == \/ r1 > 5
              \/ r1 = 5 /\ tailNonZero
              \/ r1 = 5 /\ ~tailNonZero /\ kept % 2 = 1
    IN  IF up THEN kept + 1 ELSE kept

DecimalQuantize(str) ==
    LET s == strip(str)
        neg == s # <<>> /\ Head(s) = "-"
        signed == s # <<>> /\ Head(s) \in {"-", "+"}
        body == IF signed THEN Tail(s) ELSE s
        dot == rfind(body, ".") + 1
        ip == IF dot = 0 THEN body ELSE SubSeq(body, 1, dot - 1)
        frac == IF dot = 0 THEN <<>> ELSE SubSeq(body, dot + 1, Len(body))
    IN  IF AllDigits(ip) /\ AllDigits(frac) /\ Len(ip) + Len(frac) >= 1
        THEN [ok |-> TRUE,
              cents |-> IF neg THEN 0 - QuantizeCents(ip, frac) ELSE QuantizeCents(ip, frac)]
        ELSE InvalidOperation

-----------------------------------------------------------------------------
(* parse_decimal, app.py:68-98 and import.py:19-49.  The result is         *)
(* [ok, cents, msg]: the Decimal in cents, or the ValueError raised.       *)

ValueError(m) == [ok |-> FALSE, cents |-> 0, msg |-> m]

Parsed(c) == [ok |-> TRUE, cents |-> c, msg |-> ""]

\* app.py:82-93, the separator normalisation
app_normalize(s) ==
    IF contains(s, ",") /\ contains(s, ".")
    THEN IF rfind(s, ",") > rfind(s, ".")
         THEN replace(replace(s, ".", <<>>), ",", <<".">>)
         ELSE replace(s, ",", <<>>)
    ELSE IF contains(s, ",") /\ ~contains(s, ".")
         THEN replace(s, ",", <<".">>)
         ELSE s

app_parse_decimal(value) ==
    IF value = None THEN ValueError("missing")
    ELSE LET s == strip(value) IN
         IF s = <<>> THEN ValueError("missing")
         ELSE LET d == DecimalQuantize(app_normalize(s)) IN
              IF d.ok THEN Parsed(d.cents) ELSE ValueError("invalid number")

\* import_normalize with the comparison of the two rfind results turned round
import_normalize_leftmost(s) ==
    IF contains(s, ",") /\ contains(s, ".")
    THEN IF rfind(s, ",") < rfind(s, ".")
         THEN replace(replace(s, ".", <<>>), ",", <<".">>)
         ELSE replace(s, ",", <<>>)
    ELSE IF contains(s, ",") /\ ~contains(s, ".")
         THEN replace(s, ",", <<".">>)
         ELSE s

\* import.py:33-44, the separator normalisation
import_normalize(s) ==
    IF contains(s, ",") /\ contains(s, ".")
    THEN IF rfind(s, ",") > rfind(s, ".")
         THEN replace(replace(s, ".", <<>>), ",", <<".">>)
         ELSE replace(s, ",", <<>>)
    ELSE IF contains(s, ",") /\ ~contains(s, ".")
         THEN replace(s, ",", <<".">>)
         ELSE s

import_parse_decimal(value) ==
    IF value = None THEN ValueError("missing")
    ELSE LET s == strip(value) IN
         IF s = <<>> THEN ValueError("missing")
         ELSE LET d == DecimalQuantize(import_normalize(s)) IN
              IF d.ok THEN Parsed(d.cents) ELSE ValueError("invalid number: value")

-----------------------------------------------------------------------------
(* Dates: datetime.strptime, date.isoformat, date comparison.              *)

\* s.split(c) for a one-character c
RECURSIVE split(_, _)
split(s, c) ==
    IF ~contains(s, c) THEN <<s>>
    ELSE LET i == CHOOSE k \in 1..Len(s) : s[k] = c /\ \A j \in 1..(k-1) : s[j] # c
         IN  <<SubSeq(s, 1, i - 1)>> \o split(SubSeq(s, i + 1, Len(s)), c)

IsLeap(y) == (y % 4 = 0 /\ y % 100 # 0) \/ y % 400 = 0

DaysInMonth(y, m) ==
    IF m = 2 THEN (IF IsLeap(y) THEN 29 ELSE 28)
    ELSE IF m \in {4, 6, 9, 11} THEN 30 ELSE 31

\* strptime's %Y is four digits, %m and %d one or two; the date must exist
IsDate(ys, ms, ds) ==
    /\ AllDigits(ys) /\ AllDigits(ms) /\ AllDigits(ds)
    /\ Len(ys) = 4 /\ Len(ms) \in 1..2 /\ Len(ds) \in 1..2
    /\ DigitsVal(ys) >= 1
    /\ DigitsVal(ms) \in 1..12
    /\ DigitsVal(ds) \in 1..DaysInMonth(DigitsVal(ys), DigitsVal(ms))

\* no date: what a failed parse holds in place of one
NoDate == <<0, 0, 0>>

DateError(m) == [ok |-> FALSE, date |-> NoDate, msg |-> m]

DateOk(ys, ms, ds) ==
    [ok |-> TRUE, date |-> <<DigitsVal(ys), DigitsVal(ms), DigitsVal(ds)>>, msg |-> ""]

\* app.py:101-107: empty means today, else strptime(value, "%Y-%m-%d")
parse_date(value, today) ==
    IF value = <<>> THEN [ok |-> TRUE, date |-> today, msg |-> ""]
    ELSE LET f == split(value, "-") IN
         IF Len(f) = 3 /\ IsDate(f[1], f[2], f[3])
         THEN DateOk(f[1], f[2], f[3])
         ELSE DateError("invalid date")

\* import.py:12-16: strip, empty is an error, else strptime(value, "%d.%m.%Y")
parse_date_ddmmyyyy(value) ==
    LET v == strip(IF value = None THEN <<>> ELSE value) IN
    IF v = <<>> THEN DateError("Empty date")
    ELSE LET f == split(v, ".") IN
         IF Len(f) = 3 /\ IsDate(f[3], f[2], f[1])
         THEN DateOk(f[3], f[2], f[1])
         ELSE DateError("time data does not match format")

DigitChar(n) ==
    CASE n = 0 -> "0" [] n = 1 -> "1" [] n = 2 -> "2" [] n = 3 -> "3"
      [] n = 4 -> "4" [] n = 5 -> "5" [] n = 6 -> "6" [] n = 7 -> "7"
      [] n = 8 -> "8" [] n = 9 -> "9"

\* n as a decimal string zero-padded to w digits
RECURSIVE Pad(_, _)
Pad(n, w) == IF w = 0 THEN <<>> ELSE Pad(n \div 10, w - 1) \o <<DigitChar(n % 10)>>

\* app.py:110-111, date.isoformat(): YYYY-MM-DD
iso(d) == Pad(d[1], 4) \o <<"-">> \o Pad(d[2], 2) \o <<"-">> \o Pad(d[3], 2)

\* date.__lt__
DateLT(a, b) ==
    \/ a[1] < b[1]
    \/ a[1] = b[1] /\ a[2] < b[2]
    \/ a[1] = b[1] /\ a[2] = b[2] /\ a[3] < b[3]

DateLE(a, b) == a = b \/ DateLT(a, b)

\* sorted with the comparison turned round
RECURSIVE sorted_descending(_)
sorted_descending(S) ==
    IF S = {} THEN <<>>
    ELSE LET m == CHOOSE x \in S : \A y \in S : DateLE(y, x)
         IN  <<m>> \o sorted_descending(S \ {m})

\* sorted(S) for a set of dates
RECURSIVE sorted(_)
sorted(S) ==
    IF S = {} THEN <<>>
    ELSE LET m == CHOOSE x \in S : \A y \in S : DateLE(x, y)
         IN  <<m>> \o sorted(S \ {m})

-----------------------------------------------------------------------------
(* The store.  A row of accounts is                                        *)
(*   [id, name, account_type, monthly_payment_enabled,                     *)
(*    monthly_payment_amount]                                              *)
(* and a row of balance_points is [id, account_id, as_of_date, balance].   *)
(* created_at only orders balance points of one account and one date in    *)
(* Account.balances and is left out.                                       *)

Max(S) == CHOOSE x \in S : \A y \in S : y <= x

\* the id SQLite gives the next row of an INTEGER PRIMARY KEY table:
\* one more than the largest id in the table
NextId(rows) == IF rows = {} THEN 1 ELSE Max({r.id : r \in rows}) + 1

\* Account.query.filter_by(name=name).first()
AccountByName(accts, name) == {a \in accts : a.name = name}

\* Account.query.get(account_id)
AccountById(accts, account_id) == {a \in accts : a.id = account_id}

\* BalancePoint.query.filter_by(account_id=..., as_of_date=d)
PointsAt(pts, account_id, d) ==
    {p \in pts : p.account_id = account_id /\ p.as_of_date = d}

\* the relationship Account.balances, app.py:31-37
balances(pts, acc) == {p \in pts : p.account_id = acc.id}

\* current_balance over the list ordered by as_of_date ascending
current_balance_oldest(pts, acc) ==
    LET bs == balances(pts, acc) IN
    IF bs = {} THEN 0
    ELSE (CHOOSE p \in bs : \A q \in bs : DateLE(p.as_of_date, q.as_of_date)).balance

\* app.py:39-43: balances[0] of the list ordered by as_of_date descending
current_balance(pts, acc) ==
    LET bs == balances(pts, acc) IN
    IF bs = {} THEN 0
    ELSE (CHOOSE p \in bs : \A q \in bs : DateLE(q.as_of_date, p.as_of_date)).balance

\* app.py:45-49
monthly_payment(acc) ==
    IF ~acc.monthly_payment_enabled THEN 0 ELSE acc.monthly_payment_amount

\* float(p.balance): the model's balances are far below 2^53 cents, where
\* the double nearest to a two-digit Decimal still names the same cents
float(bal) == bal

-----------------------------------------------------------------------------
(* The series builders, app.py:114-167.                                    *)

\* app.py:118-126
build_account_series(pts, account) ==
    LET mine == {p \in pts : p.account_id = account.id}
        ds == sorted({p.as_of_date : p \in mine})
    IN  [labels |-> [i \in 1..Len(ds) |-> iso(ds[i])],
         values |-> [i \in 1..Len(ds) |->
                        float((CHOOSE p \in mine : p.as_of_date = ds[i]).balance)]]

\* app.py:147-149: per_account[account_id][d] = float(bal)
per_account(pts, account_id) ==
    LET mine == {p \in pts : p.account_id = account_id} IN
    [d \in {p.as_of_date : p \in mine} |->
        float((CHOOSE p \in mine : p.as_of_date = d).balance)]

\* carry_forward that never assigns last_value
RECURSIVE carry_forward_forgets(_, _, _)
carry_forward_forgets(all_dates, date_to_balance, last_value) ==
    IF all_dates = <<>> THEN <<>>
    ELSE LET d == Head(all_dates)
             v == IF d \in DOMAIN date_to_balance THEN date_to_balance[d] ELSE last_value
         IN  <<v>> \o carry_forward_forgets(Tail(all_dates), date_to_balance, last_value)

\* app.py:153-160: the walk over the shared axis with the running value
RECURSIVE carry_forward(_, _, _)
carry_forward(all_dates, date_to_balance, last_value) ==
    IF all_dates = <<>> THEN <<>>
    ELSE LET d == Head(all_dates)
             v == IF d \in DOMAIN date_to_balance THEN date_to_balance[d] ELSE last_value
         IN  <<v>> \o carry_forward(Tail(all_dates), date_to_balance, v)

\* app.py:129-167, for a list accts of account rows
build_stacked_series(pts, accts) ==
    LET all_dates == sorted({p.as_of_date : p \in pts}) IN
    [labels |-> [i \in 1..Len(all_dates) |-> iso(all_dates[i])],
     datasets |-> [i \in 1..Len(accts) |->
                     [label |-> accts[i].name,
                      data |-> carry_forward(all_dates, per_account(pts, accts[i].id), 0)]]]

\* code points of the characters of account names and ISO dates
Ord(c) ==
    CASE c = " " -> 32 [] c = "-" -> 45 [] c \in Digits -> 48 + DigitVal(c)
      [] c = "A" -> 65 [] c = "B" -> 66 [] OTHER -> 127

\* str.__lt__
RECURSIVE StrLT(_, _)
StrLT(a, b) ==
    IF b = <<>> THEN FALSE
    ELSE IF a = <<>> THEN TRUE
    ELSE IF Head(a) = Head(b) THEN StrLT(Tail(a), Tail(b))
    ELSE Ord(Head(a)) < Ord(Head(b))

\* Account.query.order_by(Account.name.asc()).all(), app.py:172
RECURSIVE order_by_name(_)
order_by_name(accts) ==
    IF accts = {} THEN <<>>
    ELSE LET m == CHOOSE x \in accts : \A y \in accts : ~StrLT(y.name, x.name)
         IN  <<m>> \o order_by_name(accts \ {m})

RECURSIVE SumSeq(_)
SumSeq(s) == IF s = <<>> THEN 0 ELSE Head(s) + SumSeq(Tail(s))

\* app.py:170-188, what the dashboard hands to its template
dashboard(accts, pts) ==
    LET listed == order_by_name(accts)
        chart == build_stacked_series(pts, listed)
    IN  [accounts |-> listed,
         total_balance |-> SumSeq([i \in 1..Len(listed) |-> current_balance(pts, listed[i])]),
         total_monthly |-> SumSeq([i \in 1..Len(listed) |-> monthly_payment(listed[i])]),
         chart_labels |-> chart.labels,
         chart_datasets |-> chart.datasets]

-----------------------------------------------------------------------------
(* The POST handlers of app.py.  Each is a function of the form fields     *)
(* and the store to the new store, the HTTP status and the flashed         *)
(* message.                                                                *)

Bank == <<"b", "a", "n", "k">>

Other == <<"o", "t", "h", "e", "r">>

Out(accts, pts, status, flash) ==
    [accounts |-> accts, points |-> pts, status |-> status, flash |-> flash]

\* app.py:197-233
accounts_create_handler(accts, pts, form_name, form_account_type, monthly_enabled, form_monthly_amount) ==
    LET name == strip(form_name)
        account_type == strip(IF form_account_type = <<>> THEN Bank ELSE form_account_type)
        monthly_amount_raw == IF form_monthly_amount = <<>> THEN <<"0">> ELSE form_monthly_amount
        parsed == app_parse_decimal(monthly_amount_raw)
        monthly_amount == IF ~monthly_enabled THEN 0 ELSE parsed.cents
    IN  IF name = <<>>
        THEN Out(accts, pts, 302, "Account name is required.")
        ELSE IF ~parsed.ok
        THEN Out(accts, pts, 302, "Monthly payment amount is not a valid number.")
        ELSE IF AccountByName(accts, name) # {}
        THEN Out(accts, pts, 302, "An account with that name already exists.")
        ELSE Out(accts \cup {[id |-> NextId(accts),
                              name |-> name,
                              account_type |-> account_type,
                              monthly_payment_enabled |-> monthly_enabled,
                              monthly_payment_amount |-> monthly_amount]},
                 pts, 302, "Account created.")

\* other_with_name without the condition on the id
other_with_name_any(accts, acc, name) == {a \in accts : a.name = name}

\* app.py:264: Account.query.filter(Account.name == name, Account.id != acc.id)
other_with_name(accts, acc, name) == {a \in accts : a.name = name /\ a.id # acc.id}

\* app.py:250-285
account_settings_handler(accts, pts, account_id, form_name, form_account_type, monthly_enabled, form_monthly_amount) ==
    LET name == strip(form_name)
        account_type == strip(IF form_account_type = <<>> THEN Bank ELSE form_account_type)
        monthly_amount_raw == IF form_monthly_amount = <<>> THEN <<"0">> ELSE form_monthly_amount
        parsed == app_parse_decimal(monthly_amount_raw)
        monthly_amount == IF ~monthly_enabled THEN 0 ELSE parsed.cents
    IN  IF AccountById(accts, account_id) = {}
        THEN Out(accts, pts, 404, "")
        ELSE LET acc == CHOOSE a \in accts : a.id = account_id IN
        IF name = <<>>
        THEN Out(accts, pts, 302, "Account name is required.")
        ELSE IF other_with_name(accts, acc, name) # {}
        THEN Out(accts, pts, 302, "Another account already uses that name.")
        ELSE IF ~parsed.ok
        THEN Out(accts, pts, 302, "Monthly payment amount is not a valid number.")
        ELSE Out((accts \ {acc}) \cup {[id |-> acc.id,
                                        name |-> name,
                                        account_type |-> account_type,
                                        monthly_payment_enabled |-> monthly_enabled,
                                        monthly_payment_amount |-> monthly_amount]},
                 pts, 302, "Settings updated.")

\* a relationship without the cascade: the balance points stay
cascade_delete_none(pts, acc) == pts

\* the cascade "all, delete-orphan" of Account.balances, app.py:31-37:
\* deleting the account deletes its balance points
cascade_delete(pts, acc) == pts \ balances(pts, acc)

\* app.py:288-294
account_delete_handler(accts, pts, account_id) ==
    IF AccountById(accts, account_id) = {}
    THEN Out(accts, pts, 404, "")
    ELSE LET acc == CHOOSE a \in accts : a.id = account_id IN
         Out(accts \ {acc}, cascade_delete(pts, acc), 302, "Account deleted.")

\* app.py:316-323: update the point of that account and date, or add one
upsert_point(pts, account_id, d, bal) ==
    LET found == PointsAt(pts, account_id, d) IN
    IF found # {}
    THEN LET point == CHOOSE q \in found : \A r \in found : q.id <= r.id IN
         (pts \ {point}) \cup {[point EXCEPT !.balance = bal]}
    ELSE pts \cup {[id |-> NextId(pts), account_id |-> account_id,
                    as_of_date |-> d, balance |-> bal]}

\* balance_add_handler that flashes the balance error and goes on
balance_add_handler_goes_on(accts, pts, account_id, form_as_of_date, form_balance, today) ==
    LET d == parse_date(form_as_of_date, today)
        bal == app_parse_decimal(form_balance)
    IN  IF AccountById(accts, account_id) = {}
        THEN Out(accts, pts, 404, "")
        ELSE IF ~d.ok
        THEN Out(accts, pts, 302, "Date must be in YYYY-MM-DD format.")
        ELSE Out(accts, upsert_point(pts, account_id, d.date, bal.cents), 302,
                 IF ~bal.ok THEN "Balance is not a valid number."
                 ELSE IF PointsAt(pts, account_id, d.date) # {}
                 THEN "Balance updated for that date."
                 ELSE "Balance point added.")

\* app.py:297-326
balance_add_handler(accts, pts, account_id, form_as_of_date, form_balance, today) ==
    LET d == parse_date(form_as_of_date, today)
        bal == app_parse_decimal(form_balance)
    IN  IF AccountById(accts, account_id) = {}
        THEN Out(accts, pts, 404, "")
        ELSE IF ~d.ok
        THEN Out(accts, pts, 302, "Date must be in YYYY-MM-DD format.")
        ELSE IF ~bal.ok
        THEN Out(accts, pts, 302, "Balance is not a valid number.")
        ELSE Out(accts, upsert_point(pts, account_id, d.date, bal.cents), 302,
                 IF PointsAt(pts, account_id, d.date) # {}
                 THEN "Balance updated for that date."
                 ELSE "Balance point added.")

\* app.py:329-336
balance_delete_handler(accts, pts, point_id) ==
    IF {p \in pts : p.id = point_id} = {}
    THEN Out(accts, pts, 404, "")
    ELSE Out(accts, {p \in pts : p.id # point_id}, 302, "Balance point deleted.")

-----------------------------------------------------------------------------
(* import_csv, import.py:64-138.  A file is its header, the names as       *)
(* csv.DictReader reads them (already lower-case and stripped), and its    *)
(* rows, each the list of its cells.                                       *)

\* the key csv.DictReader files surplus cells under (restkey=None)
RestKey == "<restkey None>"

\* csv.DictReader.__next__: zip the cells with the header; cells beyond the
\* header go under restkey, header names beyond the cells get restval None
DictRow(fieldnames, cells) ==
    LET keys == {fieldnames[i] : i \in 1..Len(fieldnames)}
        named == [k \in keys |->
                    LET i == CHOOSE j \in 1..Len(fieldnames) :
                                 fieldnames[j] = k /\ \A h \in (j+1)..Len(fieldnames) : fieldnames[h] # k
                    IN  IF i <= Len(cells) THEN cells[i] ELSE None]
    IN  IF Len(cells) > Len(fieldnames)
        THEN [k \in keys \cup {RestKey} |->
                IF k = RestKey THEN SubSeq(cells, Len(fieldnames) + 1, Len(cells))
                ELSE named[k]]
        ELSE named

\* import.py:90-91: k.strip() raises AttributeError on the key None
norm_row_raises(raw) == RestKey \in DOMAIN raw

\* import.py:90-91 on a row without the key None
norm_row(raw) == [k \in DOMAIN raw |-> IF raw[k] = None THEN None ELSE strip(raw[k])]

\* import_upsert without the look-up of the existing point
import_upsert_always_adds(pts, account_id, d, bal) ==
    [points |-> pts \cup {[id |-> NextId(pts), account_id |-> account_id,
                           as_of_date |-> d, balance |-> bal]},
     updated |-> FALSE]

\* import.py:119-128: update the point of that account and date, or add one
import_upsert(pts, account_id, d, bal) ==
    LET found == PointsAt(pts, account_id, d) IN
    IF found # {}
    THEN LET point == CHOOSE q \in found : \A r \in found : q.id <= r.id IN
         [points |-> (pts \ {point}) \cup {[point EXCEPT !.balance = bal]},
          updated |-> TRUE]
    ELSE [points |-> pts \cup {[id |-> NextId(pts), account_id |-> account_id,
                                as_of_date |-> d, balance |-> bal]},
          updated |-> FALSE]

\* skip_row without skipped_rows += 1
skip_row_uncounted(st) == [st EXCEPT !.rows_total = st.rows_total + 1]

\* import.py:101-109, a skipped row
skip_row(st) ==
    [st EXCEPT !.rows_total = st.rows_total + 1, !.skipped_rows = st.skipped_rows + 1]

\* import.py:93-128, one turn of the loop over the rows.  st holds the
\* session's view of the store and the five counters; raw is the dict
\* csv.DictReader yields.
import_row(st, raw) ==
    IF norm_row_raises(raw)
    THEN [st EXCEPT !.rows_total = st.rows_total + 1, !.raised = "AttributeError"]
    ELSE LET row == norm_row(raw)
             d == parse_date_ddmmyyyy(row["date"])
             bal == import_parse_decimal(row["balance"])
         IN
         IF ~d.ok \/ row["accountname"] = None \/ ~bal.ok
         THEN skip_row(st)
         ELSE LET name == strip(row["accountname"]) IN
         IF name = <<>>
         THEN skip_row(st)
         ELSE LET existing == AccountByName(st.accounts, name)
                  acc == IF existing = {}
                         THEN [id |-> NextId(st.accounts),
                               name |-> name,
                               account_type |-> Other,
                               monthly_payment_enabled |-> FALSE,
                               monthly_payment_amount |-> 0]
                         ELSE CHOOSE a \in existing : TRUE
                  up == import_upsert(st.points, acc.id, d.date, bal.cents)
              IN  [st EXCEPT
                     !.rows_total = st.rows_total + 1,
                     !.accounts = st.accounts \cup {acc},
                     !.created_accounts =
                         IF existing = {} THEN st.created_accounts + 1 ELSE st.created_accounts,
                     !.points = up.points,
                     !.updated_points =
                         IF up.updated THEN st.updated_points + 1 ELSE st.updated_points,
                     !.inserted_points =
                         IF up.updated THEN st.inserted_points ELSE st.inserted_points + 1]

\* import.py:84
RequiredHeaders == {"date", "accountname", "balance"}

-----------------------------------------------------------------------------
(* State machine.                                                          *)

\* no import_csv call is running and none has reported.  Of a running call
\* imp keeps the header, the number of rows read, the five counters, the
\* exception that ended it with the row it was raised on, and the store as
\* it was when the call began (what a rollback restores).
IdleImp ==
    [pc |-> "idle", fieldnames |-> <<>>, pos |-> 0, row |-> <<>>,
     rows_total |-> 0, created_accounts |-> 0, inserted_points |-> 0,
     updated_points |-> 0, skipped_rows |-> 0, raised |-> "",
     snap_accounts |-> {}, snap_points |-> {}]

IdsWithinBounds(accts, pts) ==
    /\ \A a \in accts : a.id <= MaxAccountId
    /\ \A p \in pts : p.id <= MaxPointId

\* one request: the handler's result becomes the store; the response (status
\* and flashed message) goes to the client and is not kept
Handle(out) ==
    /\ imp.pc # "rows"
    /\ IdsWithinBounds(out.accounts, out.points)
    /\ accounts' = out.accounts
    /\ points' = out.points
    /\ imp' = IdleImp
    /\ UNCHANGED <<pin, pres>>

\* POST /accounts/create
accounts_create(form_name, form_account_type, monthly_enabled, form_monthly_amount) ==
    Handle(accounts_create_handler(accounts, points, form_name, form_account_type,
                                   monthly_enabled, form_monthly_amount))

\* POST /accounts/<account_id>/settings
account_settings(account_id, form_name, form_account_type, monthly_enabled, form_monthly_amount) ==
    Handle(account_settings_handler(accounts, points, account_id, form_name,
                                    form_account_type, monthly_enabled, form_monthly_amount))

\* POST /accounts/<account_id>/delete
account_delete(account_id) ==
    Handle(account_delete_handler(accounts, points, account_id))

\* POST /accounts/<account_id>/balances/add
balance_add(account_id, form_as_of_date, form_balance, today) ==
    Handle(balance_add_handler(accounts, points, account_id, form_as_of_date,
                               form_balance, today))

\* POST /balances/<point_id>/delete
balance_delete(point_id) ==
    Handle(balance_delete_handler(accounts, points, point_id))

\* the loop state import_row works on, from the variables
LoopState ==
    [accounts |-> accounts, points |-> points, rows_total |-> imp.rows_total,
     created_accounts |-> imp.created_accounts, inserted_points |-> imp.inserted_points,
     updated_points |-> imp.updated_points, skipped_rows |-> imp.skipped_rows,
     raised |-> ""]

\* import.py:64-87: read the file, check the header, open the session
ImportBegin(fieldnames) ==
    /\ imp.pc # "rows"
    /\ UNCHANGED <<accounts, points, pin, pres>>
    /\ IF ~(RequiredHeaders \subseteq {fieldnames[i] : i \in 1..Len(fieldnames)})
       THEN imp' = [IdleImp EXCEPT !.pc = "raised", !.fieldnames = fieldnames,
                                   !.raised = "ValueError"]
       ELSE imp' = [IdleImp EXCEPT !.pc = "rows", !.fieldnames = fieldnames,
                                   !.snap_accounts = accounts, !.snap_points = points]

\* the session after one turn of the loop, st, becomes the state: an
\* exception that escapes the loop leaves import_csv before
\* db.session.commit(), and the session's changes are rolled back
AfterRow(cells, st) ==
    /\ IdsWithinBounds(st.accounts, st.points)
    /\ accounts' = IF st.raised # "" THEN imp.snap_accounts ELSE st.accounts
    /\ points' = IF st.raised # "" THEN imp.snap_points ELSE st.points
    /\ imp' = [imp EXCEPT !.pc = IF st.raised # "" THEN "aborted" ELSE imp.pc,
                          !.row = IF st.raised # "" THEN cells ELSE imp.row,
                          !.pos = imp.pos + 1,
                          !.rows_total = st.rows_total,
                          !.created_accounts = st.created_accounts,
                          !.inserted_points = st.inserted_points,
                          !.updated_points = st.updated_points,
                          !.skipped_rows = st.skipped_rows,
                          !.raised = st.raised]

\* import.py:93-128: the reader yields the next row, cells.  A row is taken
\* while the file is no longer than MaxRows and the ids stay within the
\* model's bounds.
ImportRow(cells) ==
    /\ imp.pc = "rows"
    /\ imp.pos < MaxRows
    /\ AfterRow(cells, import_row(LoopState, DictRow(imp.fieldnames, cells)))
    /\ UNCHANGED <<pin, pres>>

\* import.py:130-138: the reader is exhausted; commit and return the report
ImportCommit ==
    /\ imp.pc = "rows"
    /\ imp' = [imp EXCEPT !.pc = "done"]
    /\ UNCHANGED <<accounts, points, pin, pres>>

-----------------------------------------------------------------------------
(* Inputs.                                                                 *)

AccountIds == 1..MaxAccountId

PointIds == 1..MaxPointId

FormNames == {<<>>, <<"A">>, <<"B", " ">>}

FormTypes == {<<>>}

FormAmounts == {<<"1", ",", "5">>, <<"1", ".", "2", ".">>}

FormDates == {<<>>, <<"2", "0", "2", "4", "-", "0", "1", "-", "3", "0">>,
              <<"2", "0", "2", "4", "-", "0", "2", "-", "0", "1">>,
              <<"2", "0", "2", "4", "-", "0", "2", "-", "3", "0">>,
              <<"3", "0", ".", "0", "1", ".", "2", "0", "2", "4">>}

FormBalances == {<<>>, <<"1", ",", "2">>, <<"2", ".", "5", ",", "1">>, <<"1", ".", "2", ".">>}

Todays == {<<2024, 2, 1>>}

\* neither copy of parse_decimal has been called on pin
Pending == [ok |-> FALSE, cents |-> 0, msg |-> "not called"]

NotCalled == [app |-> Pending, imp |-> Pending]

Init ==
    /\ accounts = {}
    /\ points = {}
    /\ imp = IdleImp
    /\ pin = <<>>
    /\ pres = NotCalled

Next ==
    \/ \E n \in FormNames, t \in FormTypes, e \in BOOLEAN, a \in FormAmounts :
          accounts_create(n, t, e, a)
    \/ \E id \in AccountIds, n \in FormNames, t \in FormTypes, e \in BOOLEAN, a \in FormAmounts :
          account_settings(id, n, t, e, a)
    \/ \E id \in AccountIds : account_delete(id)
    \/ \E id \in AccountIds, d \in FormDates, b \in FormBalances, today \in Todays :
          balance_add(id, d, b, today)
    \/ \E id \in PointIds : balance_delete(id)

Spec == Init /\ [][Next]_vars

-----------------------------------------------------------------------------
(* The importer together with the handlers.  While import_csv runs, no     *)
(* request is handled (one operator, one process at a time).               *)

Header == <<"date", "accountname", "balance">>

\* the rows a CSV file is made of
CsvRows ==
    {<<<<"3", "0", ".", "0", "1", ".", "2", "0", "2", "4">>, <<"A">>, <<"1", ",", "2">>>>,
     <<<<"3", "0", ".", "0", "1", ".", "2", "0", "2", "4">>, <<" ", "A">>, <<"2", ".", "5", ",", "1">>>>,
     <<<<"0", "1", ".", "0", "2", ".", "2", "0", "2", "4">>, <<"B">>, <<"1", ",", "2">>>>,
     \* an ISO date where DD.MM.YYYY is expected
     <<<<"2", "0", "2", "4", "-", "0", "2", "-", "0", "1">>, <<"A">>, <<"1", ",", "2">>>>,
     \* no account name
     <<<<"0", "1", ".", "0", "2", ".", "2", "0", "2", "4">>, <<" ">>, <<"1", ",", "2">>>>,
     \* two decimal points
     <<<<"0", "1", ".", "0", "2", ".", "2", "0", "2", "4">>, <<"B">>, <<"1", ".", "2", ".">>>>,
     \* no balance cell
     <<<<"0", "1", ".", "0", "2", ".", "2", "0", "2", "4">>, <<"B">>>>,
     \* 30 February, and one cell more than the header names
     <<<<"3", "0", ".", "0", "2", ".", "2", "0", "2", "4">>, <<"A">>, <<"1", ",", "2">>, <<"A">>>>}

CsvHeaders == {Header, <<"date", "balance">>}

NextImport ==
    \/ \E h \in CsvHeaders : ImportBegin(h)
    \/ \E cells \in CsvRows : ImportRow(cells)
    \/ ImportCommit
    \/ accounts_create(<<"A">>, Other, FALSE, <<>>)
    \/ \E id \in AccountIds : account_settings(id, <<"B">>, Other, FALSE, <<>>)
    \/ \E id \in AccountIds : account_delete(id)
    \/ \E id \in AccountIds :
          balance_add(id, <<"2", "0", "2", "4", "-", "0", "1", "-", "3", "0">>, <<"2", ".", "5", ",", "1">>, <<2024, 2, 1>>)
    \/ \E id \in PointIds : balance_delete(id)

SpecImport == Init /\ [][NextImport]_vars

-----------------------------------------------------------------------------
(* The two copies of parse_decimal on one input string.                    *)

ParseAlphabet == {"2", "5", ",", ".", " ", "-"}

ParseInputs == UNION {[1..n -> ParseAlphabet] : n \in 0..MaxLen}

InitParse ==
    /\ accounts = {}
    /\ points = {}
    /\ imp = IdleImp
    /\ pin \in ParseInputs
    /\ pres = NotCalled

\* parse_decimal of app.py is called on pin
CallAppParse ==
    /\ pres.app = Pending
    /\ pres' = [pres EXCEPT !.app = app_parse_decimal(pin)]
    /\ UNCHANGED <<accounts, points, imp, pin>>

\* parse_decimal of import.py is called on pin
CallImportParse ==
    /\ pres.imp = Pending
    /\ pres' = [pres EXCEPT !.imp = import_parse_decimal(pin)]
    /\ UNCHANGED <<accounts, points, imp, pin>>

NextParse == CallAppParse \/ CallImportParse

SpecParse == InitParse /\ [][NextParse]_vars

-----------------------------------------------------------------------------
(* C8.                                                                     *)

Separators == {",", "."}

\* the separator character whose last occurrence is furthest right in s
RightmostSeparator(s) ==
    s[CHOOSE i \in 1..Len(s) :
        s[i] \in Separators /\ \A j \in (i+1)..Len(s) : s[j] \notin Separators]

\* s as the claim says it is handed to the numeric parser
SeparatorsResolved(s) ==
    IF contains(s, ",") /\ contains(s, ".")
    THEN LET dec == RightmostSeparator(s)
             kept == SelectSeq(s, LAMBDA c : c \notin Separators \/ c = dec)
         IN  [i \in 1..Len(kept) |-> IF kept[i] = dec THEN "." ELSE kept[i]]
    ELSE IF contains(s, ",")
    THEN [i \in 1..Len(s) |-> IF s[i] = "," THEN "." ELSE s[i]]
    ELSE s

\* whether r, the result of a parse_decimal copy on value, is what the
\* numeric parser makes of the resolved string
AsResolved(r, value) ==
    LET s == strip(value)
        d == DecimalQuantize(SeparatorsResolved(s))
    IN  IF s = <<>> THEN ~r.ok
        ELSE r.ok = d.ok /\ (d.ok => r.cents = d.cents)

\* C8: with both ',' and '.' in the input the separator that occurs last is
\* the decimal point and the other one is removed, with only ',' it becomes
\* '.', otherwise the string is parsed as it is; and the copies of
\* parse_decimal in app.py and import.py agree on every input: the same
\* value, or both fail.
C8_RightmostSeparatorIsDecimal ==
    /\ pres.app # Pending => AsResolved(pres.app, pin)
    /\ pres.imp # Pending => AsResolved(pres.imp, pin)
    /\ pres.app # Pending /\ pres.imp # Pending =>
          /\ pres.app.ok = pres.imp.ok
          /\ pres.app.cents = pres.imp.cents

\* "2.5,5" has been parsed by both copies, as 25.50
C8_Witness ==
    /\ pin = <<"2", ".", "5", ",", "5">>
    /\ pres.app = Parsed(2550)
    /\ pres.imp.ok /\ pres.imp.cents = 2550

-----------------------------------------------------------------------------
(* Form inputs the claims range over.                                      *)

AnyFormAmounts == FormAmounts \cup {<<>>, <<" ">>}

AnyFormTypes == FormTypes \cup {Other}

-----------------------------------------------------------------------------
(* C1.                                                                     *)

SameKey(p, account_id, d) == p.account_id = account_id /\ p.as_of_date = d

\* after is pts with the one observation of (account_id, d) set to bal
IsUpsertOf(after, pts, account_id, d, bal) ==
    /\ \E p \in after :
          /\ SameKey(p, account_id, d) /\ p.balance = bal
          /\ \A q \in after : SameKey(q, account_id, d) => q = p
    /\ {q \in after : ~SameKey(q, account_id, d)} = {q \in pts : ~SameKey(q, account_id, d)}
    /\ (\E q \in pts : SameKey(q, account_id, d)) => Cardinality(after) = Cardinality(pts)

\* C1: the store never holds two observations of one account and date,
\* whatever sequence of balance_add, import rows, balance_delete and
\* account_delete led to it; and a write by balance_add or by an import row
\* leaves exactly one observation of its account and date, with the written
\* balance, adding none where one existed and touching no other.
C1_UpsertInvariant ==
    /\ \A p, q \in points :
          p.account_id = q.account_id /\ p.as_of_date = q.as_of_date => p = q
    /\ \A id \in AccountIds, date \in FormDates, b \in FormBalances, today \in Todays :
          LET d == parse_date(date, today)
              bal == app_parse_decimal(b)
          IN  AccountById(accounts, id) # {} /\ d.ok /\ bal.ok =>
                 IsUpsertOf(balance_add_handler(accounts, points, id, date, b, today).points,
                            points, id, d.date, bal.cents)
    /\ imp.pc = "rows" =>
          \A cells \in CsvRows :
             LET raw == DictRow(imp.fieldnames, cells)
                 st == import_row(LoopState, raw)
             IN  st.raised = "" /\ st.skipped_rows = imp.skipped_rows =>
                    LET acc == CHOOSE a \in st.accounts : a.name = strip(raw["accountname"])
                    IN  IsUpsertOf(st.points, points, acc.id,
                                   parse_date_ddmmyyyy(raw["date"]).date,
                                   import_parse_decimal(raw["balance"]).cents)

\* one import, into a store without observations, has inserted an
\* observation and then updated it from a second row
C1_Witness ==
    /\ imp.pc = "rows"
    /\ imp.snap_points = {}
    /\ imp.inserted_points = 1 /\ imp.updated_points = 1
    /\ \E p \in points : points = {p} /\ p.balance = 2510

-----------------------------------------------------------------------------
(* C9.                                                                     *)

\* C9: no two accounts have the same name; accounts_create with a name in
\* use and account_settings with the name of another account change
\* nothing and report the duplicate (unless accounts_create already
\* refused the amount); account_settings with the account's own name is
\* not refused as a duplicate and, its amount being a number, is applied.
C9_AccountNamesUnique ==
    /\ \A a, b \in accounts : a.name = b.name => a = b
    /\ \A n \in FormNames, ty \in AnyFormTypes, e \in BOOLEAN, m \in AnyFormAmounts :
          (\E a \in accounts : a.name = strip(n)) =>
             LET out == accounts_create_handler(accounts, points, n, ty, e, m) IN
             /\ out.accounts = accounts /\ out.points = points
             /\ out.flash \in {"An account with that name already exists.",
                               "Monthly payment amount is not a valid number."}
    /\ \A id \in AccountIds, n \in FormNames, ty \in AnyFormTypes, e \in BOOLEAN,
          m \in AnyFormAmounts :
          \A acc \in AccountById(accounts, id) :
             LET out == account_settings_handler(accounts, points, id, n, ty, e, m)
                 amount == app_parse_decimal(IF m = <<>> THEN <<"0">> ELSE m)
             IN  /\ (\E a \in accounts : a.name = strip(n) /\ a # acc) =>
                       /\ out.accounts = accounts /\ out.points = points
                       /\ out.flash = "Another account already uses that name."
                 /\ strip(n) = acc.name =>
                       /\ out.flash # "Another account already uses that name."
                       /\ amount.ok =>
                             /\ out.flash = "Settings updated."
                             /\ out.points = points
                             /\ out.accounts =
                                   (accounts \ {acc}) \cup
                                   {[id |-> acc.id, name |-> acc.name,
                                     account_type |-> IF ty = <<>> THEN Bank ELSE ty,
                                     monthly_payment_enabled |-> e,
                                     monthly_payment_amount |->
                                         IF e THEN amount.cents ELSE 0]}

\* two accounts, one of them made by the importer, so that every create and
\* every rename names an account in use
C9_Witness ==
    /\ \E a, b \in accounts : a.name = <<"A">> /\ b.name = <<"B">>
    /\ imp.pc = "done" /\ imp.created_accounts >= 1

-----------------------------------------------------------------------------
(* C10.                                                                    *)

\* C10: after every row of an import and in its report, rows_total is the
\* sum of inserted_points, updated_points and skipped_rows,
\* created_accounts is at most inserted_points, and the store holds
\* inserted_points observations and created_accounts accounts more than
\* when the import began.
C10_ImportCounters ==
    imp.pc \in {"rows", "done"} =>
       /\ imp.rows_total = imp.inserted_points + imp.updated_points + imp.skipped_rows
       /\ imp.rows_total = imp.pos
       /\ imp.created_accounts <= imp.inserted_points
       /\ Cardinality(points) = Cardinality(imp.snap_points) + imp.inserted_points
       /\ Cardinality(accounts) = Cardinality(imp.snap_accounts) + imp.created_accounts

\* a report with a skipped row, and one with an insert and an update
C10_Witness ==
    /\ imp.pc = "done"
    /\ imp.rows_total = 2
    /\ imp.skipped_rows = 1 /\ imp.inserted_points = 1 /\ imp.created_accounts = 1
    /\ imp.snap_points # {}

-----------------------------------------------------------------------------
(* C6.                                                                     *)

\* a row with an empty account name, an unparseable date or an unparseable
\* amount
IsBadRow(cells) ==
    LET raw == DictRow(Header, cells) IN
    \/ raw["accountname"] = None
    \/ strip(raw["accountname"]) = <<>>
    \/ ~parse_date_ddmmyyyy(raw["date"]).ok
    \/ ~import_parse_decimal(raw["balance"]).ok

\* C6: a row with an empty account name, an unparseable date or an
\* unparseable amount never ends the import: it is skipped and the rows
\* after it are read.
C6_BadRowNeverAborts == imp.pc = "aborted" => ~IsBadRow(imp.row)

\* what holds of the rows that carry no more cells than the header names:
\* a bad one is skipped, the store and the other counters as they were
BadRowWithoutSurplusCellsIsSkipped ==
    imp.pc = "rows" =>
       \A cells \in CsvRows :
          IsBadRow(cells) /\ Len(cells) <= Len(imp.fieldnames) =>
             import_row(LoopState, DictRow(imp.fieldnames, cells)) = skip_row(LoopState)

-----------------------------------------------------------------------------
(* C2 and C3.                                                              *)

\* the lists of distinct accounts of the store
AccountLists ==
    {l \in UNION {[1..n -> accounts] : n \in 0..Cardinality(accounts)} :
        \A i, j \in 1..Len(l) : l[i] = l[j] => i = j}

\* the dates with an observation of any account
AxisDates == {p.as_of_date : p \in points}

\* where date d stands on the shared axis
AxisPosition(d) == 1 + Cardinality({e \in AxisDates : DateLT(e, d)})

\* the observations of acc dated d or earlier
KnownAt(acc, d) == {p \in points : p.account_id = acc.id /\ DateLE(p.as_of_date, d)}

\* C2: for every account given to build_stacked_series and every date d of
\* the shared axis, the account's value at d's position is the balance of
\* its observation with the greatest date <= d, and 0 when it has none.
C2_CarryForward ==
    \A accts \in AccountLists :
       LET datasets == build_stacked_series(points, accts).datasets IN
       \A i \in 1..Len(accts), d \in AxisDates :
          LET known == KnownAt(accts[i], d)
              value == datasets[i].data[AxisPosition(d)]
          IN  IF known = {} THEN value = 0
              ELSE \E p \in known :
                      /\ \A q \in known : DateLE(q.as_of_date, p.as_of_date)
                      /\ value = p.balance

\* one account's value is carried to a later date of another account, which
\* has no observation yet at the first one's date
C2_Witness ==
    \E a, b \in accounts, d, e \in AxisDates :
       /\ DateLT(d, e)
       /\ PointsAt(points, a.id, d) # {} /\ PointsAt(points, a.id, e) = {}
       /\ KnownAt(b, d) = {} /\ PointsAt(points, b.id, e) # {}

\* C3: the labels of build_stacked_series are the distinct dates with an
\* observation of any account, each once, in strictly ascending order; and
\* there is one dataset for each account given, in the order given, as long
\* as the labels.
C3_SharedAxis ==
    \A accts \in AccountLists :
       LET series == build_stacked_series(points, accts) IN
       /\ Len(series.labels) = Cardinality(AxisDates)
       /\ \A d \in AxisDates :
             parse_date(series.labels[AxisPosition(d)], NoDate) = [ok |-> TRUE, date |-> d, msg |-> ""]
       /\ \A k \in 1..(Len(series.labels) - 1) :
             StrLT(series.labels[k], series.labels[k + 1])
       /\ Len(series.datasets) = Len(accts)
       /\ \A i \in 1..Len(accts) :
             /\ series.datasets[i].label = accts[i].name
             /\ Len(series.datasets[i].data) = Len(series.labels)

\* two accounts with an observation each on the same date: one label for
\* two observations, and a dataset of that length for each account
C3_Witness ==
    /\ Cardinality(accounts) = 2
    /\ Cardinality(points) = 2
    /\ Cardinality(AxisDates) = 1
    /\ \E p, q \in points : p.account_id # q.account_id

-----------------------------------------------------------------------------
(* C4.                                                                     *)

AllZero(data) == \A k \in 1..Len(data) : data[k] = 0

\* C4: no observation belongs to an account that is gone; account_delete
\* removes the account's observations and no others, the dashboard's axis
\* then holds the dates of the other accounts' observations only, and an
\* account created next, also one that gets the deleted account's id, has
\* an all-zero dataset.
C4_CascadeDelete ==
    /\ \A p \in points : \E a \in accounts : a.id = p.account_id
    /\ \A id \in AccountIds :
          AccountById(accounts, id) # {} =>
             LET out == account_delete_handler(accounts, points, id)
                 view == dashboard(out.accounts, out.points)
             IN  /\ AccountById(out.accounts, id) = {}
                 /\ out.points = {p \in points : p.account_id # id}
                 /\ {view.chart_labels[k] : k \in 1..Len(view.chart_labels)} =
                       {iso(p.as_of_date) : p \in {q \in points : q.account_id # id}}
                 /\ \A n \in FormNames, e \in BOOLEAN, m \in FormAmounts :
                       LET made == accounts_create_handler(out.accounts, out.points, n, <<>>, e, m)
                           chart == build_stacked_series(made.points,
                                                         order_by_name(made.accounts \ out.accounts))
                       IN  /\ made.points = out.points
                           /\ \A i \in 1..Len(chart.datasets) : AllZero(chart.datasets[i].data)

\* two accounts with an observation each, where the account made after
\* deleting one gets the deleted account's id
C4_Witness ==
    \E a, b \in accounts :
       /\ a # b
       /\ balances(points, a) # {} /\ balances(points, b) # {}
       /\ LET out == account_delete_handler(accounts, points, a.id)
              made == accounts_create_handler(out.accounts, out.points, a.name, <<>>, FALSE, <<>>)
          IN  \E c \in made.accounts \ out.accounts : c.id = a.id

-----------------------------------------------------------------------------
(* C5.                                                                     *)

\* the amount accounts_create and account_settings parse: the field, or "0"
MonthlyAmountRaw(m) == IF m = <<>> THEN <<"0">> ELSE m

\* C5: balance_add with a date or a balance that does not parse (an empty
\* balance too), and accounts_create and account_settings with a monthly
\* amount that does not parse, leave the accounts and the observations as
\* they were.
C5_ParseErrorsChangeNothing ==
    /\ \A id \in AccountIds, date \in FormDates, b \in FormBalances, today \in Todays :
          ~parse_date(date, today).ok \/ ~app_parse_decimal(b).ok =>
             LET out == balance_add_handler(accounts, points, id, date, b, today) IN
             /\ out.accounts = accounts /\ out.points = points
             /\ out.flash \notin {"Balance updated for that date.", "Balance point added."}
    /\ \A n \in FormNames, ty \in AnyFormTypes, e \in BOOLEAN, m \in AnyFormAmounts :
          ~app_parse_decimal(MonthlyAmountRaw(m)).ok =>
             LET out == accounts_create_handler(accounts, points, n, ty, e, m) IN
             /\ out.accounts = accounts /\ out.points = points
             /\ out.flash # "Account created."
    /\ \A id \in AccountIds, n \in FormNames, ty \in AnyFormTypes, e \in BOOLEAN,
          m \in AnyFormAmounts :
          ~app_parse_decimal(MonthlyAmountRaw(m)).ok =>
             LET out == account_settings_handler(accounts, points, id, n, ty, e, m) IN
             /\ out.accounts = accounts /\ out.points = points
             /\ out.flash # "Settings updated."

\* an account with an observation, where balance_add with the balance
\* "1.2." answers that the balance is no number, and with the date
\* 2024-02-30 that the date is none
C5_Witness ==
    \E a \in accounts :
       /\ PointsAt(points, a.id, <<2024, 1, 30>>) # {}
       /\ balance_add_handler(accounts, points, a.id, <<"2", "0", "2", "4", "-", "0", "1", "-", "3", "0">>,
                              <<"1", ".", "2", ".">>, <<2024, 2, 1>>).flash
             = "Balance is not a valid number."
       /\ balance_add_handler(accounts, points, a.id, <<"2", "0", "2", "4", "-", "0", "2", "-", "3", "0">>,
                              <<"1", ",", "2">>, <<2024, 2, 1>>).flash
             = "Date must be in YYYY-MM-DD format."

-----------------------------------------------------------------------------
(* C7.                                                                     *)

\* C7: an account's current_balance is the balance of its observation with
\* the latest date, and zero when it has none; and when the store holds an
\* observation, it is the last value of the account's dataset on the
\* dashboard.
C7_CurrentBalance ==
    /\ \A a \in accounts :
          LET bs == balances(points, a) IN
          IF bs = {} THEN current_balance(points, a) = 0
          ELSE \A p \in bs :
                  (\A q \in bs : DateLE(q.as_of_date, p.as_of_date)) =>
                     current_balance(points, a) = p.balance
    /\ points # {} =>
          LET view == dashboard(accounts, points) IN
          \A i \in 1..Len(view.accounts) :
             view.chart_datasets[i].data[Len(view.chart_labels)] =
                current_balance(points, view.accounts[i])

\* one account with two observations of different balances, another with
\* none
C7_Witness ==
    \E a, b \in accounts :
       /\ balances(points, b) = {}
       /\ \E p, q \in balances(points, a) :
             DateLT(p.as_of_date, q.as_of_date) /\ p.balance # q.balance

=============================================================================
